---- MODULE Spec2Model ----
(***************************************************************************)
(* Model of the three static analyzers of the senior-security skill:       *)
(*   SecurityAuditor          (security_auditor.py)                        *)
(*   BLEAttackSurfaceAnalyzer (ble_attack_surface.py)                      *)
(*   ThreatModeler            (threat_modeler.py)                          *)
(*                                                                         *)
(* Text is modelled as sequences of tokens.  A line is a sequence of       *)
(* tokens; a token is a whitespace character, one of the characters "/"    *)
(* and "*", or a fragment of Dart / XML / YAML text.  A regular expression *)
(* of the source is modelled by the set of tokens in which re.search finds *)
(* a match; a line matches when one of its tokens does.                    *)
(***************************************************************************)
EXTENDS Integers, Sequences, FiniteSets, TLC

VARIABLES
    tool,          \* which analyzer class was instantiated
    target,        \* self.target_path
    target_exists, \* whether the target path exists on disk
    corpus,        \* the files on disk, under the target (or its parent)
    listing,       \* the files in the order in which the file system lists them
    check_filter,  \* SecurityAuditor.check_filter ("none" for None)
    pc,            \* position inside run(): the stage to call next, "returned"
                   \* after run() returned, "reported" after generate_report was
                   \* called once more on the instance, "exit1" after sys.exit(1)
    runs,          \* number of run() calls started on the instance
    findings,      \* self.findings (SecurityAuditor, BLEAttackSurfaceAnalyzer)
    raw,           \* self.findings as it was when generate_report was entered
    report,        \* the report returned by generate_report
    ble_config,    \* BLEAttackSurfaceAnalyzer.ble_config
    results        \* ThreatModeler.results

\* what is fixed when the instance is constructed: the arguments and the disk
env == <<tool, target, target_exists, corpus, listing, check_filter>>

vars == <<env, pc, runs, findings, raw, report, ble_config, results>>

----------------------------------------------------------------------------
(* Bounds of the model *)

\* number of files in a corpus
MaxFiles == 2

\* number of times run() is called on one instance
MaxRuns == 2

----------------------------------------------------------------------------
(* Generic helpers *)

Range(s) == {s[i] : i \in 1..Len(s)}

\* every enumeration (ordering without repetition) of a finite set
Orders(S) ==
    {s \in [1..Cardinality(S) -> S] : \A i, j \in 1..Cardinality(S) : s[i] = s[j] => i = j}

Min(a, b) == IF a <= b THEN a ELSE b

----------------------------------------------------------------------------
(* Text: str.strip, str.startswith, slicing, substring tests *)

Whitespace == {" ", "\t"}

\* number of characters of a token
Width(tok) ==
    CASE tok = "key = 'abc123'" -> 14
      [] tok = "print(peerId)" -> 13
      [] tok = "Random()" -> 8
      [] tok = "x.decode(b)" -> 11
      [] tok = "sodium" -> 6
      [] tok = "localName:" -> 10
      [] tok = "txPowerLevel:" -> 13
      [] tok = "manufacturerData: peerId" -> 24
      [] tok = "notify: true" -> 12
      [] tok = "autoConnect: true" -> 17
      [] tok = "onData" -> 6
      [] tok = "data.length >" -> 13
      [] tok = "ACCESS_BACKGROUND_LOCATION" -> 26
      [] tok = "android:allowBackup=\"true\"" -> 26
      [] tok = "ACCESS_FINE_LOCATION" -> 20
      [] tok = "BLUETOOTH_SCAN" -> 14
      [] tok = "bluetooth-central" -> 17
      [] tok = "fetch" -> 5
      [] tok = "http: ^1.0.0" -> 12
      [] tok = "sodium_libs: ^2.0.0" -> 19
      [] tok = "serviceUuid:" -> 12
      [] tok = "requestMtu" -> 10
      [] tok = "BleTransport" -> 12
      [] tok = "UIBackgroundModes: bluetooth + fetch" -> 36
      [] tok = "http dependency in pubspec.yaml" -> 31
      [] tok = "sodium_libs not in dependencies" -> 31
      [] tok = "flutter_secure_storage not in dependencies" -> 42
      [] tok = "ACCESS_FINE_LOCATION + BLUETOOTH_SCAN" -> 37
      [] tok = "Missing BLUETOOTH_ADVERTISE" -> 27
      [] tok = "Missing NSBluetoothAlwaysUsageDescription" -> 41
      [] tok = "Characteristic(" -> 15
      [] tok = "'0000aaaa-0000-1000-8000-00805f9b34fb'" -> 38
      [] tok = "data.length" -> 11
      [] tok = "> 0" -> 3
      [] tok = "x{100}" -> 100
      [] OTHER -> 1

RECURSIVE lstrip(_)
lstrip(line) ==
    IF line # <<>> /\ Head(line) \in Whitespace THEN lstrip(Tail(line)) ELSE line

RECURSIVE rstrip(_)
rstrip(line) ==
    IF line # <<>> /\ line[Len(line)] \in Whitespace
    THEN rstrip(SubSeq(line, 1, Len(line) - 1))
    ELSE line

\* str.strip()
strip(line) == rstrip(lstrip(line))

\* str.startswith(prefix), on single-character tokens
startswith(line, prefix) ==
    /\ Len(line) >= Len(prefix)
    /\ SubSeq(line, 1, Len(prefix)) = prefix

RECURSIVE Chars(_)
Chars(line) == IF line = <<>> THEN 0 ELSE Width(Head(line)) + Chars(Tail(line))

\* Slice without the cut: the whole text
SliceNothing(line, cap) == [whole |-> line, part |-> 0]

\* text[:cap]: the whole tokens that fit, and the number of characters kept
\* of the token the cut falls in
RECURSIVE Slice(_, _)
Slice(line, cap) ==
    IF line = <<>> \/ cap = 0 THEN [whole |-> <<>>, part |-> 0]
    ELSE IF Width(Head(line)) > cap THEN [whole |-> <<>>, part |-> cap]
    ELSE LET rest == Slice(Tail(line), cap - Width(Head(line)))
         IN  [whole |-> <<Head(line)>> \o rest.whole, part |-> rest.part]

SnippetLen(snippet) == Chars(snippet.whole) + snippet.part

\* re.search(pattern, line): the pattern is the set of tokens it matches in
Search(pattern, line) == \E i \in 1..Len(line) : line[i] \in pattern

\* word in content, for the `in` tests on whole file contents and on paths:
\* the tokens of the alphabet that contain the word
Containing(word) ==
    CASE word = "fetch" -> {"fetch"}
      [] word = "bluetooth" -> {"bluetooth-central"}
      [] word = "http:" -> {"http: ^1.0.0"}
      [] word = "http_cache" -> {}
      [] word = "sodium_libs" -> {"sodium_libs: ^2.0.0"}
      [] word = "flutter_secure_storage" -> {}
      [] word = "ACCESS_FINE_LOCATION" -> {"ACCESS_FINE_LOCATION"}
      [] word = "BLUETOOTH_SCAN" -> {"BLUETOOTH_SCAN"}
      [] word = "BLUETOOTH_ADVERTISE" -> {}
      [] word = "NSBluetoothAlwaysUsageDescription" -> {}
      [] word = "bluetooth-central" -> {"bluetooth-central"}
      [] word = "bluetooth-peripheral" -> {}
      [] word = "ble_peripheral" -> {"ble_peripheral"}
      [] word = "debug" -> {"debug"}
      [] word = "profile" -> {}
      [] word = ".g.dart" -> {"a.g.dart"}
      [] word = ".freezed.dart" -> {"m.freezed.dart"}
      [] word = "service" -> {"serviceUuid:"}
      [] word = "characteristic" -> {"Characteristic("}
      [] OTHER -> {}

\* word in text, text a sequence of tokens (a path string or one line)
In(word, text) == \E i \in 1..Len(text) : text[i] \in Containing(word)

\* word in content, content a sequence of lines
InContent(word, content) == \E n \in 1..Len(content) : In(word, content[n])

----------------------------------------------------------------------------
(* Paths: pathlib.Path as a list of segments, str(path) as tokens *)

Path(abs, segs) == [abs |-> abs, segs |-> segs]

RECURSIVE JoinSegs(_)
JoinSegs(segs) ==
    IF Len(segs) = 0 THEN <<>>
    ELSE IF Len(segs) = 1 THEN <<segs[1]>>
    ELSE <<Head(segs), "/">> \o JoinSegs(Tail(segs))

\* str(path)
Str(p) ==
    IF p.segs = <<>> THEN (IF p.abs THEN <<"/">> ELSE <<".">>)
    ELSE (IF p.abs THEN <<"/">> ELSE <<>>) \o JoinSegs(p.segs)

\* text.replace(old, new) for single-character old and new
Replace(text, old, new) == [i \in DOMAIN text |-> IF text[i] = old THEN new ELSE text[i]]

\* needle in text, for a needle of several tokens
Substring(needle, text) ==
    \E i \in 0..(Len(text) - Len(needle)) : SubSeq(text, i + 1, i + Len(needle)) = needle

\* path / rel
Under(root, rel) == Path(root.abs, root.segs \o rel)

\* path.relative_to(root)
relative_to(p, root) == Path(FALSE, SubSeq(p.segs, Len(root.segs) + 1, Len(p.segs)))

\* path.parent
Parent(p) == IF p.segs = <<>> THEN p ELSE Path(p.abs, SubSeq(p.segs, 1, Len(p.segs) - 1))

\* names matched by the glob "*.dart"
DartNames == {"a.dart", "b.dart", "a_test.dart", "a.g.dart", "m.freezed.dart"}

----------------------------------------------------------------------------
(* The inputs: targets, file contents, files *)

Tools == {"auditor", "ble", "threat"}

Targets == {Path(FALSE, <<>>), Path(FALSE, <<"app">>), Path(TRUE, <<"srv", "ble_peripheral">>)}

Filters == {"none", "crypto", "storage", "logging", "protocol", "permissions"}

UuidLiteral == "'0000aaaa-0000-1000-8000-00805f9b34fb'"

DartA ==
    << <<"Random()">>,
       <<" ", " ", "/", "/", " ", "Random()">>,
       <<"print(peerId)">>,
       <<"/", "/", "/", " ", "localName:">>,
       <<"x.decode(b)", " ", "/", "/", " ", "sodium">>,
       <<"notify: true", " ", "autoConnect: true">>,
       <<"serviceUuid:", " ", UuidLiteral>> >>

DartB ==
    << <<" ", "*", " ", "key = 'abc123'">>,
       <<"\t", "Random()", " ", "Random()">>,
       <<"localName:", " ">>,
       <<"onData">>,
       <<"txPowerLevel:">>,
       <<"manufacturerData: peerId">>,
       <<"Characteristic(", UuidLiteral>>,
       <<"BleTransport">>,
       <<"key = 'abc123'">> >>

\* a fragment of 100 characters that no pattern matches in
LongText == "x{100}"

\* n empty lines
BlankLines(n) == [k \in 1..n |-> <<>>]

DartC ==
    << <<"onData", " ", "data.length >">> >>
    \o BlankLines(15)
    \o << <<"data.length >">>,
          <<"onData">> >>
    \o BlankLines(14)
    \o << <<"data.length >">>,
          <<"onData">>,
          <<"data.length">>,
          <<" ", "> 0">>,
          <<" ", " ", " ", " ", " ", " ", "Random()", " ", "localName:", LongText>>,
          <<"Random()", " ", "localName:", LongText, LongText>>,
          <<"Characteristic(", " ", "serviceUuid:", " ", UuidLiteral>>,
          <<UuidLiteral>> >>

\* ten lines: Random() on line 5, a hardcoded key on line 10, nothing else
DartExample ==
    BlankLines(4)
    \o << <<" ", " ", "Random()">> >>
    \o BlankLines(4)
    \o << <<"key = 'abc123'">> >>

ManifestA ==
    << <<"android:allowBackup=\"true\"">>,
       <<"ACCESS_BACKGROUND_LOCATION">>,
       <<"ACCESS_FINE_LOCATION", " ", "BLUETOOTH_SCAN">> >>

PlistA == << <<"fetch">>, <<"bluetooth-central">> >>

PubspecA == << <<"http: ^1.0.0">> >>

PubspecB == << <<"sodium_libs: ^2.0.0">> >>

\* a file: where it is (under the target, or next to it in the target's parent),
\* its path relative to that place, its content split at "\n", and whether
\* read_text succeeds
File(dir, rel, content, readable) ==
    [dir |-> dir, rel |-> rel, content |-> content, readable |-> readable]

FilePool ==
    { File("target", <<"lib", "a.dart">>, DartA, TRUE),
      File("target", <<"lib", "a.dart">>, DartB, TRUE),
      File("target", <<"lib", "a.dart">>, DartC, TRUE),
      File("target", <<"lib", "a.dart">>, DartExample, TRUE),
      File("target", <<"test", "a_test.dart">>, DartA, TRUE),
      File("target", <<"lib", "test", "b.dart">>, DartB, TRUE),
      File("target", <<"lib", "a.g.dart">>, DartA, TRUE),
      File("target", <<"lib", "m.freezed.dart">>, DartB, TRUE),
      File("target", <<"lib", "b.dart">>, DartB, TRUE),
      File("target", <<"lib", "b.dart">>, DartA, FALSE),
      File("target", <<"main", "AndroidManifest.xml">>, ManifestA, TRUE),
      File("target", <<"main", "AndroidManifest.xml">>, ManifestA, FALSE),
      File("target", <<"debug", "AndroidManifest.xml">>, ManifestA, TRUE),
      File("target", <<"ios", "Info.plist">>, PlistA, TRUE),
      File("target", <<"pubspec.yaml">>, PubspecA, TRUE),
      File("parent", <<"pubspec.yaml">>, PubspecB, TRUE) }

\* the file systems: at most MaxFiles files, no two at the same place
Corpora ==
    {c \in SUBSET FilePool :
        /\ Cardinality(c) <= MaxFiles
        /\ \A f, g \in c : (f.dir = g.dir /\ f.rel = g.rel) => f = g}

\* Path.rglob(glob): the files under the target whose name matches, in the
\* order the file system lists them, which the code does not choose and which
\* stays the same while the tree is unchanged
rglob(names) ==
    SelectSeq(listing, LAMBDA f : f.dir = "target" /\ f.rel[Len(f.rel)] \in names)

\* the Path object rglob yields for a file
PathOf(f) == Under(target, f.rel)

----------------------------------------------------------------------------
(* SecurityAuditor: the rule catalog *)

\* a check tuple (pattern, severity, check_name, description, recommendation,
\* category); description and recommendation are fixed texts per check_name
\* and are carried by it
Check(pattern, severity, check, category) ==
    [pattern |-> pattern, severity |-> severity, check |-> check, category |-> category]

CRYPTO_CHECKS ==
    << Check({"Random()"}, "CRIT", "insecure-rng", "crypto"),
       Check({"key = 'abc123'"}, "CRIT", "hardcoded-secret", "crypto"),
       Check({}, "HIGH", "zero-nonce", "crypto"),
       Check({}, "HIGH", "nonce-reuse-risk", "crypto"),
       Check({}, "CRIT", "crypto-fallback", "crypto") >>

STORAGE_CHECKS ==
    << Check({}, "CRIT", "secret-in-prefs", "storage"),
       Check({}, "CRIT", "secret-in-file", "storage"),
       Check({}, "LOW", "key-deletion", "storage") >>

LOGGING_CHECKS ==
    << Check({"print(peerId)"}, "HIGH", "pii-log-peerid", "logging"),
       Check({}, "CRIT", "key-logged", "logging"),
       Check({}, "HIGH", "pii-log-location", "logging"),
       Check({}, "CRIT", "secret-logged", "logging"),
       Check({"print(peerId)"}, "LOW", "debug-print", "logging") >>

PROTOCOL_CHECKS ==
    << Check({"x.decode(b)"}, "MED", "unguarded-decode", "protocol"),
       Check({}, "MED", "unchecked-sublist", "protocol"),
       Check({}, "MED", "unchecked-bytedata", "protocol") >>

PERMISSION_CHECKS_ANDROID ==
    << Check({"ACCESS_BACKGROUND_LOCATION"}, "MED", "background-location", "permissions"),
       Check({"android:allowBackup=\"true\""}, "HIGH", "backup-enabled", "permissions"),
       Check({}, "CRIT", "debuggable", "permissions"),
       Check({}, "MED", "cleartext-traffic", "permissions") >>

\* SnippetCap letting through a hundred characters more
LooseCap == 120 + 100

\* the cap of code_snippet
SnippetCap == 120

\* a Finding of security_auditor.py
Finding(severity, check, file_path, line, code_snippet) ==
    [severity |-> severity, check |-> check, file_path |-> file_path,
     line |-> line, code_snippet |-> code_snippet]

RECURSIVE Concat(_)
Concat(seqs) == IF seqs = <<>> THEN <<>> ELSE Head(seqs) \o Concat(Tail(seqs))

\* _get_checks returning all the checks whatever the filter
AllChecks == CRYPTO_CHECKS \o STORAGE_CHECKS \o LOGGING_CHECKS \o PROTOCOL_CHECKS

\* SecurityAuditor._get_checks
get_checks ==
    LET all_checks == CRYPTO_CHECKS \o STORAGE_CHECKS \o LOGGING_CHECKS \o PROTOCOL_CHECKS
    IN  IF check_filter # "none"
        THEN SelectSeq(all_checks, LAMBDA c : c.category = check_filter)
        ELSE all_checks

----------------------------------------------------------------------------
(* SecurityAuditor: the scan stages *)

\* IsCommentLine testing for "//" only
IsSlashComment(stripped) == startswith(stripped, <<"/", "/">>)

\* the test of the "Skip comments" branch
IsCommentLine(stripped) ==
    \/ startswith(stripped, <<"/", "/">>)
    \/ startswith(stripped, <<"*">>)
    \/ startswith(stripped, <<"/", "/", "/">>)

\* the exclusion filter of audit_dart_files
AuditorKeeps(f) ==
    /\ ~Substring(<<"/", "test", "/">>, Replace(Str(PathOf(f)), "\\", "/"))
    /\ ~In(".g.dart", Str(PathOf(f)))
    /\ ~In(".freezed.dart", Str(PathOf(f)))

\* DartLineLoop recording one finding per match on a line, as a loop over
\* re.finditer would
DartLineLoopPerMatch(c, f) ==
    LET lines == f.content
        matches(i) == {k \in 1..Len(lines[i]) : lines[i][k] \in c.pattern}
        per(i) == IF IsCommentLine(strip(lines[i])) THEN <<>>
                  ELSE [m \in 1..Cardinality(matches(i)) |->
                           Finding(c.severity, c.check, Str(relative_to(PathOf(f), target)), i,
                                   Slice(strip(lines[i]), SnippetCap))]
    IN  Concat([i \in 1..Len(lines) |-> per(i)])

\* DartLineLoop numbering the lines from 0, as enumerate(lines) would
DartLineLoopFromZero(c, f) ==
    LET lines == f.content
        hit(i) == /\ ~IsCommentLine(strip(lines[i]))
                  /\ Search(c.pattern, lines[i])
        hits == SelectSeq([i \in 1..Len(lines) |-> i], hit)
    IN  [k \in 1..Len(hits) |->
            Finding(c.severity, c.check, Str(relative_to(PathOf(f), target)), hits[k] - 1,
                    Slice(strip(lines[hits[k]]), SnippetCap))]

\* the inner loop of audit_dart_files: one check over the lines of one file
DartLineLoop(c, f) ==
    LET lines == f.content
        hit(i) == /\ ~IsCommentLine(strip(lines[i]))
                  /\ Search(c.pattern, lines[i])
        hits == SelectSeq([i \in 1..Len(lines) |-> i], hit)
    IN  [k \in 1..Len(hits) |->
            Finding(c.severity, c.check, Str(relative_to(PathOf(f), target)), hits[k],
                    Slice(strip(lines[hits[k]]), SnippetCap))]

\* the body of the file loop of audit_dart_files; a failing read_text skips
\* the file
DartFileLoop(f, checks) ==
    IF ~f.readable THEN <<>>
    ELSE Concat([r \in 1..Len(checks) |-> DartLineLoop(checks[r], f)])

\* DartFindings with the loops exchanged: every check in turn over all files
DartFindingsChecksFirst(order) ==
    LET dart_files == SelectSeq(order, AuditorKeeps)
        checks == get_checks
        one(c) == Concat([n \in 1..Len(dart_files) |->
                            IF dart_files[n].readable THEN DartLineLoop(c, dart_files[n])
                            ELSE <<>>])
    IN  Concat([r \in 1..Len(checks) |-> one(checks[r])])

\* the findings audit_dart_files appends when rglob yields the files in `order`
DartFindings(order) ==
    LET dart_files == SelectSeq(order, AuditorKeeps)
        checks == get_checks
    IN  Concat([n \in 1..Len(dart_files) |-> DartFileLoop(dart_files[n], checks)])

\* the inner loop of audit_android_manifest
ManifestLineLoop(c, f) ==
    LET lines == f.content
        hit(i) == Search(c.pattern, lines[i])
        hits == SelectSeq([i \in 1..Len(lines) |-> i], hit)
    IN  [k \in 1..Len(hits) |->
            Finding(c.severity, c.check, Str(relative_to(PathOf(f), target)), hits[k],
                    Slice(strip(lines[hits[k]]), SnippetCap))]

ManifestFileLoop(f) ==
    IF ~f.readable THEN <<>>
    ELSE Concat([r \in 1..Len(PERMISSION_CHECKS_ANDROID) |->
                    ManifestLineLoop(PERMISSION_CHECKS_ANDROID[r], f)])

\* the findings audit_android_manifest appends
ManifestFindings(manifests) ==
    LET main_manifests ==
            SelectSeq(manifests, LAMBDA m : /\ ~In("debug", Str(PathOf(m)))
                                            /\ ~In("profile", Str(PathOf(m))))
        chosen == IF main_manifests # <<>> THEN main_manifests ELSE manifests
    IN  Concat([n \in 1..Len(chosen) |-> ManifestFileLoop(chosen[n])])

\* the body of the loop of audit_ios_plist
PlistFileLoop(f) ==
    IF ~f.readable THEN <<>>
    ELSE IF InContent("fetch", f.content) /\ InContent("bluetooth", f.content)
    THEN << Finding("LOW", "ios-background-modes", Str(relative_to(PathOf(f), target)), 0,
                    [whole |-> <<"UIBackgroundModes: bluetooth + fetch">>, part |-> 0]) >>
    ELSE <<>>

PlistFindings(plists) == Concat([n \in 1..Len(plists) |-> PlistFileLoop(plists[n])])

\* the files at a path
FilesAt(p) ==
    {f \in corpus : p = (IF f.dir = "target" THEN Under(target, f.rel)
                         ELSE Under(Parent(target), f.rel))}

\* the findings audit_pubspec appends
PubspecFindings ==
    LET here == Under(target, <<"pubspec.yaml">>)
        pubspec == IF FilesAt(here) # {} THEN here
                   ELSE Under(Parent(target), <<"pubspec.yaml">>)
    IN  IF FilesAt(pubspec) = {} THEN <<>>
        ELSE LET f == CHOOSE g \in FilesAt(pubspec) : TRUE
                 snip(t) == [whole |-> <<t>>, part |-> 0]
             IN  IF ~f.readable THEN <<>>
                 ELSE (IF InContent("http:", f.content) /\ ~InContent("http_cache", f.content)
                       THEN << Finding("LOW", "http-dependency", <<"pubspec.yaml">>, 0,
                                       snip("http dependency in pubspec.yaml")) >>
                       ELSE <<>>)
                   \o (IF ~InContent("sodium_libs", f.content)
                       THEN << Finding("HIGH", "missing-sodium", <<"pubspec.yaml">>, 0,
                                       snip("sodium_libs not in dependencies")) >>
                       ELSE <<>>)
                   \o (IF ~InContent("flutter_secure_storage", f.content)
                       THEN << Finding("HIGH", "missing-secure-storage", <<"pubspec.yaml">>, 0,
                                       snip("flutter_secure_storage not in dependencies")) >>
                       ELSE <<>>)

----------------------------------------------------------------------------
(* generate_report: sort, deduplicate, summarize *)

\* severity_order.get(f.severity, 99)
severity_order(severity) ==
    CASE severity = "CRIT" -> 0
      [] severity = "HIGH" -> 1
      [] severity = "MED" -> 2
      [] severity = "LOW" -> 3
      [] OTHER -> 99

\* InsertByKey with the comparison strict: x goes before the elements of its
\* own key, which is what an unstable sort may do
InsertBeforeEqual(sorted, x) ==
    LET k == Cardinality({i \in 1..Len(sorted) :
                            severity_order(sorted[i].severity) < severity_order(x.severity)})
    IN  SubSeq(sorted, 1, k) \o <<x>> \o SubSeq(sorted, k + 1, Len(sorted))

\* one step of the stable sort: x goes behind every element whose key is not
\* greater than its own
InsertByKey(sorted, x) ==
    LET k == Cardinality({i \in 1..Len(sorted) :
                            severity_order(sorted[i].severity) <= severity_order(x.severity)})
    IN  SubSeq(sorted, 1, k) \o <<x>> \o SubSeq(sorted, k + 1, Len(sorted))

RECURSIVE SortLoop(_, _)
SortLoop(sorted, rest) ==
    IF rest = <<>> THEN sorted
    ELSE SortLoop(InsertByKey(sorted, Head(rest)), Tail(rest))

\* SortBySeverity without the sort
SortSkipped(fs) == fs

\* list.sort(key=lambda f: severity_order.get(f.severity, 99)), a stable sort
SortBySeverity(fs) == SortLoop(<<>>, fs)

\* the dedup key of SecurityAuditor.generate_report
AuditorKey(f) == <<f.check, f.file_path, f.line>>

\* the dedup key of BLEAttackSurfaceAnalyzer.generate_report
BLEKey(f) == <<f.category, f.description, f.file_path, f.line>>

\* the key the instantiated analyzer uses
KeyOf(f) == IF tool = "auditor" THEN AuditorKey(f) ELSE BLEKey(f)

\* DedupLoop without seen.add(key)
RECURSIVE DedupLoopNoAdd(_, _, _)
DedupLoopNoAdd(fs, seen, unique) ==
    IF fs = <<>> THEN unique
    ELSE LET f == Head(fs)
         IN  IF KeyOf(f) \notin seen
             THEN DedupLoopNoAdd(Tail(fs), seen, Append(unique, f))
             ELSE DedupLoopNoAdd(Tail(fs), seen, unique)

\* the deduplication loop: seen is the set of keys met, unique the list kept
RECURSIVE DedupLoop(_, _, _)
DedupLoop(fs, seen, unique) ==
    IF fs = <<>> THEN unique
    ELSE LET f == Head(fs)
         IN  IF KeyOf(f) \notin seen
             THEN DedupLoop(Tail(fs), seen \cup {KeyOf(f)}, Append(unique, f))
             ELSE DedupLoop(Tail(fs), seen, unique)

\* Deduplicate keeping every finding
DeduplicateNothing(fs) == fs

\* the deduplication of generate_report
Deduplicate(fs) == DedupLoop(fs, {}, <<>>)

\* CountLoop with a first occurrence counted as counts.get(key, 0)
RECURSIVE CountLoopFromZero(_, _, _)
CountLoopFromZero(fs, field, counts) ==
    IF fs = <<>> THEN counts
    ELSE LET key == Head(fs)[field]
             got == IF key \in DOMAIN counts THEN counts[key] + 1 ELSE 0
         IN  CountLoopFromZero(Tail(fs), field,
                 [k \in DOMAIN counts \cup {key} |-> IF k = key THEN got ELSE counts[k]])

\* CountBy by CountLoopFromZero
CountByFromZero(fs, field) == CountLoopFromZero(fs, field, <<>>)

\* the counting loop of the summary: counts[key] = counts.get(key, 0) + 1 for
\* each record in turn
RECURSIVE CountLoop(_, _, _)
CountLoop(fs, field, counts) ==
    IF fs = <<>> THEN counts
    ELSE LET key == Head(fs)[field]
             got == IF key \in DOMAIN counts THEN counts[key] ELSE 0
         IN  CountLoop(Tail(fs), field,
                 [k \in DOMAIN counts \cup {key} |-> IF k = key THEN got + 1 ELSE counts[k]])

\* a mapping of the summary: key -> number of records, only for the keys that
\* occur
CountBy(fs, field) == CountLoop(fs, field, <<>>)

NoReport == [target |-> <<>>]

\* the report dict of SecurityAuditor.generate_report
AuditorReport(fs) ==
    [target |-> Str(target),
     total_findings |-> Len(fs),
     by_severity |-> CountBy(fs, "severity"),
     by_check |-> CountBy(fs, "check"),
     findings |-> fs]

----------------------------------------------------------------------------
(* The state after construction *)

EmptyConfig ==
    [service_uuids |-> <<>>, characteristic_uuids |-> <<>>, advertising_data |-> <<>>,
     connection_params |-> <<>>, scan_settings |-> <<>>]

\* custom_findings and the keys of summary are set by the first run
EmptyResults ==
    [threats |-> <<>>, summary |-> <<>>, components_found |-> <<>>, custom_findings |-> 0]

Init ==
    /\ tool \in Tools
    /\ target \in Targets
    /\ target_exists \in BOOLEAN
    /\ corpus \in Corpora
    /\ target_exists = FALSE => corpus = {}
    /\ target.segs = <<>> => \A f \in corpus : f.dir = "target"
    /\ listing \in Orders(corpus)
    /\ check_filter \in (IF tool = "auditor" THEN Filters ELSE {"none"})
    /\ pc = "idle"
    /\ runs = 0
    /\ findings = <<>>
    /\ raw = <<>>
    /\ report = NoReport
    /\ ble_config = EmptyConfig
    /\ results = EmptyResults

----------------------------------------------------------------------------
(* run(): the entry, validate_target and the exit *)

\* a call of run() on the instance: the first, or one more after a return
run ==
    /\ pc \in {"idle", "returned", "reported"}
    /\ runs < MaxRuns
    /\ runs' = runs + 1
    /\ pc' = "validate_target"
    /\ UNCHANGED <<env, findings, raw, report, ble_config, results>>

FirstStage ==
    CASE tool = "auditor" -> "audit_dart_files"
      [] tool = "ble" -> "extract_ble_config"
      [] tool = "threat" -> "scan_components"

\* validate_target without the test of the path
ValidateNothing ==
    /\ pc = "validate_target"
    /\ pc' = FirstStage
    /\ UNCHANGED <<env, runs, findings, raw, report, ble_config, results>>

\* validate_target; the ValueError it raises reaches the except clause of
\* run(), which calls sys.exit(1)
validate_target ==
    /\ pc = "validate_target"
    /\ pc' = IF target_exists THEN FirstStage ELSE "exit1"
    /\ UNCHANGED <<env, runs, findings, raw, report, ble_config, results>>

----------------------------------------------------------------------------
(* SecurityAuditor: the stages of run() *)

audit_dart_files ==
    /\ tool = "auditor"
    /\ pc = "audit_dart_files"
    /\ findings' = findings \o DartFindings(rglob(DartNames))
    /\ pc' = "audit_android_manifest"
    /\ UNCHANGED <<env, runs, raw, report, ble_config, results>>

audit_android_manifest ==
    /\ tool = "auditor"
    /\ pc = "audit_android_manifest"
    /\ IF check_filter # "none" /\ check_filter # "permissions"
       THEN findings' = findings
       ELSE findings' = findings \o ManifestFindings(rglob({"AndroidManifest.xml"}))
    /\ pc' = "audit_ios_plist"
    /\ UNCHANGED <<env, runs, raw, report, ble_config, results>>

audit_ios_plist ==
    /\ tool = "auditor"
    /\ pc = "audit_ios_plist"
    /\ IF check_filter # "none" /\ check_filter # "permissions"
       THEN findings' = findings
       ELSE findings' = findings \o PlistFindings(rglob({"Info.plist"}))
    /\ pc' = "audit_pubspec"
    /\ UNCHANGED <<env, runs, raw, report, ble_config, results>>

audit_pubspec ==
    /\ tool = "auditor"
    /\ pc = "audit_pubspec"
    /\ IF check_filter # "none" /\ check_filter # "crypto"
       THEN findings' = findings
       ELSE findings' = findings \o PubspecFindings
    /\ pc' = "generate_report"
    /\ UNCHANGED <<env, runs, raw, report, ble_config, results>>

\* SecurityAuditor.generate_report, as the last stage of run() or called
\* once more on the instance after run() returned
AuditorGenerateReport ==
    /\ tool = "auditor"
    /\ pc \in {"generate_report", "returned", "reported"}
    /\ raw' = findings
    /\ findings' = Deduplicate(SortBySeverity(findings))
    /\ report' = AuditorReport(findings')
    /\ pc' = IF pc = "generate_report" THEN "returned" ELSE "reported"
    /\ UNCHANGED <<env, runs, ble_config, results>>

AuditorNext ==
    \/ run
    \/ validate_target
    \/ audit_dart_files
    \/ audit_android_manifest
    \/ audit_ios_plist
    \/ audit_pubspec
    \/ AuditorGenerateReport

----------------------------------------------------------------------------
(* BLEAttackSurfaceAnalyzer: the rule tables *)

\* a rule tuple (pattern, severity, check, description, recommendation); the
\* finding keeps the description, not the check
BLERule(pattern, severity, check, description) ==
    [pattern |-> pattern, severity |-> severity, check |-> check,
     description |-> description]

advertising_patterns ==
    << BLERule({"localName:"}, "HIGH", "advertising-name",
               "Device name included in BLE advertising"),
       BLERule({"manufacturerData: peerId"}, "CRIT", "advertising-identity",
               "Peer identity data in manufacturer-specific advertising field"),
       BLERule({"manufacturerData: peerId"}, "MED", "advertising-manufacturer-data",
               "Manufacturer-specific data in advertising"),
       BLERule({}, "MED", "advertising-service-data",
               "Service data in advertising"),
       BLERule({}, "HIGH", "advertising-display-name",
               "User display name may be broadcast in BLE advertising"),
       BLERule({"txPowerLevel:"}, "LOW", "advertising-tx-power",
               "TX power level in advertising") >>

gatt_patterns ==
    << BLERule({}, "CRIT", "gatt-read-secret",
               "GATT characteristic with read permission may expose secrets"),
       BLERule({}, "MED", "gatt-write-no-response",
               "Write-without-response on GATT"),
       BLERule({"notify: true"}, "LOW", "gatt-notify",
               "GATT notification enabled") >>

connection_patterns ==
    << BLERule({"autoConnect: true"}, "MED", "auto-connect",
               "Auto-connect enabled"),
       BLERule({}, "MED", "high-max-connections",
               "High max connection limit may allow connection flooding"),
       BLERule({}, "HIGH", "no-connection-timeout",
               "BLE connection without timeout"),
       BLERule({"requestMtu"}, "LOW", "mtu-request",
               "MTU negotiation") >>

\* the trigger pattern of handler_patterns
handler_pattern == {"onData"}

\* the tokens one of the validation_patterns matches in
validation_patterns == {"data.length >"}

\* the tokens that end with ".length", where a match of \.length\s*[<>=] can
\* begin
LengthSuffix == {"data.length"}

\* the tokens that begin with one of < > =
ComparisonPrefix == {"> 0"}

\* any(re.search(vp, context) for vp in validation_patterns): a match inside
\* one token, or one of \.length\s*[<>=] that runs from a token ending with
\* ".length" over whitespace, newlines included, to a comparison operator
SearchValidation(context) ==
    \/ Search(validation_patterns, context)
    \/ \E i, j \in 1..Len(context) :
          /\ i < j
          /\ context[i] \in LengthSuffix
          /\ context[j] \in ComparisonPrefix
          /\ \A k \in (i + 1)..(j - 1) : context[k] \in Whitespace \cup {"\n"}

\* ValidationWindow one line longer
WiderWindow == 15 + 1

\* the number of lines after a trigger that are searched for a validation
ValidationWindow == 15

uuid_pattern == {UuidLiteral}

\* match.group(1).upper()
UuidOf(tok) ==
    CASE tok = UuidLiteral -> "0000AAAA-0000-1000-8000-00805F9B34FB"
      [] OTHER -> tok

\* a BLEFinding
BLEFinding(severity, category, description, file_path, line, code_snippet) ==
    [severity |-> severity, category |-> category, description |-> description,
     file_path |-> file_path, line |-> line, code_snippet |-> code_snippet]

----------------------------------------------------------------------------
(* Whole-content matching: re.finditer over the content, line numbers by *)
(* counting newlines                                                      *)

\* the content as one text: the lines joined by "\n"
RECURSIVE Joined(_)
Joined(lines) ==
    IF Len(lines) = 0 THEN <<>>
    ELSE IF Len(lines) = 1 THEN lines[1]
    ELSE Head(lines) \o <<"\n">> \o Joined(Tail(lines))

\* content[:start].count("\n") + 1, start the offset of the token at index at
LineOfOffset(text, at) == Cardinality({j \in 1..(at - 1) : text[j] = "\n"}) + 1

\* the start offsets of the matches of re.finditer(pattern, content), in
\* order; a pattern with a greedy ".*" matches at most once on a line, from
\* the first place it can start
FindIter(pattern, greedy, text) ==
    LET first(i) == \A j \in 1..(i - 1) :
                        text[j] \in pattern => LineOfOffset(text, j) # LineOfOffset(text, i)
        hit(i) == text[i] \in pattern /\ (greedy => first(i))
    IN  SelectSeq([i \in 1..Len(text) |-> i], hit)

----------------------------------------------------------------------------
(* BLEAttackSurfaceAnalyzer: the scan stages *)

\* the exclusion filter of _scan_dart_files
BLEKeeps(f) ==
    /\ ~Substring(<<"/", "test", "/">>, Replace(Str(PathOf(f)), "\\", "/"))
    /\ ~In(".g.dart", Str(PathOf(f)))

\* _scan_dart_files, when rglob yields the files in `order`
scan_dart_files(order) == SelectSeq(order, BLEKeeps)

\* UuidRecords testing for "characteristic" before "service"
UuidRecordsCharacteristicFirst(f) ==
    IF ~f.readable THEN <<>>
    ELSE LET text == Joined(f.content)
             at == FindIter(uuid_pattern, FALSE, text)
             rec(k) ==
                LET line_num == LineOfOffset(text, at[k])
                    context_line == IF line_num > 0 THEN f.content[line_num] ELSE <<>>
                IN  [list |-> IF In("characteristic", context_line)
                              THEN "characteristic_uuids"
                              ELSE "service_uuids",
                     entry |-> [uuid |-> UuidOf(text[at[k]]),
                                file |-> Str(relative_to(PathOf(f), target)),
                                line |-> line_num]]
         IN  [k \in 1..Len(at) |-> rec(k)]

\* the UUID records extract_ble_config takes from one file, each with the
\* list it goes to
UuidRecords(f) ==
    IF ~f.readable THEN <<>>
    ELSE LET text == Joined(f.content)
             at == FindIter(uuid_pattern, FALSE, text)
             rec(k) ==
                LET line_num == LineOfOffset(text, at[k])
                    context_line == IF line_num > 0 THEN f.content[line_num] ELSE <<>>
                IN  [list |-> IF In("service", context_line) THEN "service_uuids"
                              ELSE IF In("characteristic", context_line)
                                   THEN "characteristic_uuids"
                                   ELSE "service_uuids",
                     entry |-> [uuid |-> UuidOf(text[at[k]]),
                                file |-> Str(relative_to(PathOf(f), target)),
                                line |-> line_num]]
         IN  [k \in 1..Len(at) |-> rec(k)]

\* ble_config after extract_ble_config went over the files
ExtractedConfig(config, dart_files) ==
    LET recs == Concat([n \in 1..Len(dart_files) |-> UuidRecords(dart_files[n])])
        of(list) == SelectSeq(recs, LAMBDA r : r.list = list)
        entries(list) == [k \in 1..Len(of(list)) |-> of(list)[k].entry]
    IN  [config EXCEPT !.service_uuids = @ \o entries("service_uuids"),
                       !.characteristic_uuids = @ \o entries("characteristic_uuids")]

\* the inner loop of audit_advertising, audit_gatt_permissions and
\* audit_connection_security: one rule over the lines of one file
BLELineLoop(rule, category, f) ==
    LET lines == f.content
        hit(i) == Search(rule.pattern, lines[i])
        hits == SelectSeq([i \in 1..Len(lines) |-> i], hit)
    IN  [k \in 1..Len(hits) |->
            BLEFinding(rule.severity, category, rule.description,
                       Str(relative_to(PathOf(f), target)), hits[k],
                       Slice(strip(lines[hits[k]]), SnippetCap))]

BLEFileLoop(f, rules, category) ==
    IF ~f.readable THEN <<>>
    ELSE Concat([r \in 1..Len(rules) |-> BLELineLoop(rules[r], category, f)])

\* the findings a single-line scan appends
BLEScanFindings(dart_files, rules, category) ==
    Concat([n \in 1..Len(dart_files) |-> BLEFileLoop(dart_files[n], rules, category)])

\* the body of the file loop of audit_data_validation
ValidationFileLoop(f) ==
    IF ~f.readable THEN <<>>
    ELSE LET lines == f.content
             \* "\n".join(lines[i:i + 15]) with i counted from 1: the lines
             \* after line i
             context(i) ==
                Joined(SubSeq(lines, i + 1, Min(i + ValidationWindow, Len(lines))))
             has_validation(i) == SearchValidation(context(i))
             hit(i) == Search(handler_pattern, lines[i]) /\ ~has_validation(i)
             hits == SelectSeq([i \in 1..Len(lines) |-> i], hit)
         IN  [k \in 1..Len(hits) |->
                BLEFinding("HIGH", "transport",
                           "BLE data handler without visible length validation",
                           Str(relative_to(PathOf(f), target)), hits[k],
                           Slice(strip(lines[hits[k]]), SnippetCap))]

ValidationFindings(dart_files) ==
    Concat([n \in 1..Len(dart_files) |-> ValidationFileLoop(dart_files[n])])

\* the body of the manifest loop of audit_ble_permissions
BLEManifestLoop(f) ==
    IF In("debug", Str(PathOf(f))) \/ In("profile", Str(PathOf(f))) THEN <<>>
    ELSE IF ~f.readable THEN <<>>
    ELSE LET rel_path == Str(relative_to(PathOf(f), target))
             snip(t) == [whole |-> <<t>>, part |-> 0]
         IN  (IF /\ InContent("ACCESS_FINE_LOCATION", f.content)
                 /\ InContent("BLUETOOTH_SCAN", f.content)
              THEN << BLEFinding("LOW", "config", "Both FINE_LOCATION and BLUETOOTH_SCAN",
                                 rel_path, 0, snip("ACCESS_FINE_LOCATION + BLUETOOTH_SCAN")) >>
              ELSE <<>>)
          \o (IF /\ ~InContent("BLUETOOTH_ADVERTISE", f.content)
                 /\ In("ble_peripheral", Str(target))
              THEN << BLEFinding("MED", "config", "BLUETOOTH_ADVERTISE permission missing",
                                 rel_path, 0, snip("Missing BLUETOOTH_ADVERTISE")) >>
              ELSE <<>>)

\* the body of the plist loop of audit_ble_permissions
BLEPlistLoop(f) ==
    IF ~f.readable THEN <<>>
    ELSE IF ~InContent("NSBluetoothAlwaysUsageDescription", f.content)
    THEN << BLEFinding("MED", "config", "Missing NSBluetoothAlwaysUsageDescription",
                       Str(relative_to(PathOf(f), target)), 0,
                       [whole |-> <<"Missing NSBluetoothAlwaysUsageDescription">>,
                        part |-> 0]) >>
    ELSE <<>>

PermissionFindings(manifests, plists) ==
    Concat([n \in 1..Len(manifests) |-> BLEManifestLoop(manifests[n])])
    \o Concat([n \in 1..Len(plists) |-> BLEPlistLoop(plists[n])])

\* the report dict of BLEAttackSurfaceAnalyzer.generate_report
BLEReport(fs) ==
    [target |-> Str(target),
     ble_config |-> ble_config,
     total_findings |-> Len(fs),
     by_severity |-> CountBy(fs, "severity"),
     by_category |-> CountBy(fs, "category"),
     findings |-> fs]

----------------------------------------------------------------------------
(* BLEAttackSurfaceAnalyzer: the stages of run() *)

extract_ble_config ==
    /\ tool = "ble"
    /\ pc = "extract_ble_config"
    /\ ble_config' = ExtractedConfig(ble_config, scan_dart_files(rglob(DartNames)))
    /\ pc' = "audit_advertising"
    /\ UNCHANGED <<env, runs, findings, raw, report, results>>

audit_advertising ==
    /\ tool = "ble"
    /\ pc = "audit_advertising"
    /\ findings' = findings \o
          BLEScanFindings(scan_dart_files(rglob(DartNames)), advertising_patterns, "advertising")
    /\ pc' = "audit_gatt_permissions"
    /\ UNCHANGED <<env, runs, raw, report, ble_config, results>>

audit_gatt_permissions ==
    /\ tool = "ble"
    /\ pc = "audit_gatt_permissions"
    /\ findings' = findings \o
          BLEScanFindings(scan_dart_files(rglob(DartNames)), gatt_patterns, "gatt")
    /\ pc' = "audit_connection_security"
    /\ UNCHANGED <<env, runs, raw, report, ble_config, results>>

audit_connection_security ==
    /\ tool = "ble"
    /\ pc = "audit_connection_security"
    /\ findings' = findings \o
          BLEScanFindings(scan_dart_files(rglob(DartNames)), connection_patterns, "connection")
    /\ pc' = "audit_data_validation"
    /\ UNCHANGED <<env, runs, raw, report, ble_config, results>>

audit_data_validation ==
    /\ tool = "ble"
    /\ pc = "audit_data_validation"
    /\ findings' = findings \o ValidationFindings(scan_dart_files(rglob(DartNames)))
    /\ pc' = "audit_ble_permissions"
    /\ UNCHANGED <<env, runs, raw, report, ble_config, results>>

audit_ble_permissions ==
    /\ tool = "ble"
    /\ pc = "audit_ble_permissions"
    /\ findings' = findings \o PermissionFindings(rglob({"AndroidManifest.xml"}),
                                                   rglob({"Info.plist"}))
    /\ pc' = "generate_report"
    /\ UNCHANGED <<env, runs, raw, report, ble_config, results>>

\* BLEAttackSurfaceAnalyzer.generate_report, as the last stage of run() or
\* called once more on the instance after run() returned
BLEGenerateReport ==
    /\ tool = "ble"
    /\ pc \in {"generate_report", "returned", "reported"}
    /\ raw' = findings
    /\ findings' = Deduplicate(SortBySeverity(findings))
    /\ report' = BLEReport(findings')
    /\ pc' = IF pc = "generate_report" THEN "returned" ELSE "reported"
    /\ UNCHANGED <<env, runs, ble_config, results>>

BLENext ==
    \/ run
    \/ validate_target
    \/ extract_ble_config
    \/ audit_advertising
    \/ audit_gatt_permissions
    \/ audit_connection_security
    \/ audit_data_validation
    \/ audit_ble_permissions
    \/ BLEGenerateReport

----------------------------------------------------------------------------
(* ThreatModeler: the threat catalog *)

\* Optional[str] file_path left at its default
None == <<"None">>

\* a Threat as asdict gives it; the mitigation is a fixed text per description
Threat(category, component, description, severity) ==
    [category |-> category, component |-> component, description |-> description,
     severity |-> severity, file_path |-> None]

transport_threats ==
    << Threat("Spoofing", "BLE Transport",
              "BLE MAC address cloning to impersonate a peer device", "high"),
       Threat("Tampering", "BLE Transport",
              "Modification of BLE packets in transit by MITM relay", "medium"),
       Threat("Info Disclosure", "BLE Transport",
              "BLE advertising data leaks peer ID, group, or display name", "high"),
       Threat("Denial of Service", "BLE Transport",
              "BLE connection slot exhaustion (max 6 on iOS)", "medium"),
       Threat("Info Disclosure", "BLE Transport",
              "BLE signal used for proximity tracking", "medium") >>

mesh_threats ==
    << Threat("Spoofing", "Mesh Relay",
              "Forged topology announcements to corrupt routing", "high"),
       Threat("Tampering", "Mesh Relay",
              "TTL manipulation to cause infinite relay loops", "medium"),
       Threat("Repudiation", "Mesh Relay",
              "Relay node denies having forwarded a packet", "low"),
       Threat("Denial of Service", "Mesh Relay",
              "Flood attack: unique packets exhaust dedup cache and CPU", "high"),
       Threat("Denial of Service", "Mesh Relay",
              "Dedup cache poisoning to drop legitimate packets", "medium") >>

crypto_threats ==
    << Threat("Spoofing", "Cryptography",
              "Forged Noise XX handshake to establish rogue session", "critical"),
       Threat("Tampering", "Cryptography",
              "Modified ciphertext bypasses AEAD authentication", "critical"),
       Threat("Info Disclosure", "Cryptography",
              "Nonce reuse leaks XOR of plaintexts", "critical"),
       Threat("Info Disclosure", "Cryptography",
              "Weak Argon2id params allow group key brute-force", "high"),
       Threat("Elevation", "Cryptography",
              "Compromised group key allows decryption of all group traffic", "high") >>

identity_threats ==
    << Threat("Spoofing", "Identity",
              "Stolen Ed25519 private key enables peer impersonation", "critical"),
       Threat("Info Disclosure", "Identity",
              "Keys stored in SharedPreferences readable without root", "critical"),
       Threat("Info Disclosure", "Identity",
              "PII logged: peer IDs, keys, coordinates in debug output", "high"),
       Threat("Tampering", "Identity",
              "Modify persisted group membership to gain unauthorized access", "medium"),
       Threat("Info Disclosure", "Identity",
              "Chat message JSON files readable on rooted device", "medium") >>

protocol_threats ==
    << Threat("Tampering", "Protocol",
              "Malformed packet causes parser crash (DoS via parsing)", "high"),
       Threat("Tampering", "Protocol",
              "Integer overflow in payload length field", "medium"),
       Threat("Info Disclosure", "Protocol",
              "Message type byte reveals communication patterns to observer", "low"),
       Threat("Spoofing", "Protocol",
              "Forged source ID in packet header", "high") >>

\* the keys of BLE_MESH_THREATS, in the order of the dict
CatalogKeys == <<"transport", "mesh", "crypto", "identity", "protocol">>

\* BLE_MESH_THREATS[component].threats
BLE_MESH_THREATS(component) ==
    CASE component = "transport" -> transport_threats
      [] component = "mesh" -> mesh_threats
      [] component = "crypto" -> crypto_threats
      [] component = "identity" -> identity_threats
      [] component = "protocol" -> protocol_threats

\* component_patterns: per component, the list of its patterns, each the set
\* of tokens it matches in
component_patterns(component) ==
    CASE component = "transport" -> <<{"BleTransport"}, {"BleTransport"}, {}, {}, {}>>
      [] component = "mesh" -> <<{}, {}, {}, {}, {}>>
      [] component = "crypto" -> <<{}, {}, {}, {}, {"sodium"}, {}>>
      [] component = "identity" -> <<{}, {}, {}, {}, {}>>
      [] component = "protocol" -> <<{}, {}, {}, {}>>

\* a risk pattern tuple (pattern, description, severity, component); greedy
\* tells that the pattern has a ".*" in it
Risk(pattern, greedy, description, severity, component) ==
    [pattern |-> pattern, greedy |-> greedy, description |-> description,
     severity |-> severity, component |-> component]

risk_patterns ==
    << Risk({"Random()"}, FALSE, "dart:math Random() usage", "critical", "crypto"),
       Risk({}, TRUE, "Possible secret in SharedPreferences", "critical", "identity"),
       Risk({"print(peerId)"}, TRUE, "Possible PII/key in print statement", "high", "identity"),
       Risk({}, TRUE, "Possible PII/key in debugPrint", "high", "identity"),
       Risk({}, FALSE, "HTTP URL (not HTTPS)", "medium", "transport"),
       Risk({}, TRUE, "Android backup enabled", "medium", "identity"),
       Risk({"x.decode(b)"}, TRUE, "Decoding without try/catch", "medium", "protocol") >>

----------------------------------------------------------------------------
(* ThreatModeler: the stages *)

\* the loop over the patterns of one component: it stops at the first pattern
\* that matches the content
RECURSIVE PatternLoop(_, _)
PatternLoop(patterns, content) ==
    IF patterns = <<>> THEN FALSE
    ELSE IF Search(Head(patterns), content) THEN TRUE
    ELSE PatternLoop(Tail(patterns), content)

\* ComponentsIn trying the first pattern of each component only
ComponentsInFirstPattern(f) ==
    IF ~f.readable THEN {}
    ELSE {c \in Range(CatalogKeys) :
            Search(Head(component_patterns(c)), Joined(f.content))}

\* the components the patterns find in one file; a failing read_text skips
\* the file
ComponentsIn(f) ==
    IF ~f.readable THEN {}
    ELSE {c \in Range(CatalogKeys) :
            PatternLoop(component_patterns(c), Joined(f.content))}

\* sorted leaving the components in the order of the component_patterns dict
Unsorted(found) == SelectSeq(CatalogKeys, LAMBDA c : c \in found)

\* sorted(found_components)
sorted(found) ==
    SelectSeq(<<"crypto", "identity", "mesh", "protocol", "transport">>,
              LAMBDA c : c \in found)

\* components_found after scan_components
ComponentsFound(dart_files) ==
    sorted(UNION {ComponentsIn(dart_files[n]) : n \in 1..Len(dart_files)})

\* CatalogThreats without the conservative fallback
CatalogThreatsNoFallback(components_found) ==
    Concat([n \in 1..Len(components_found) |-> BLE_MESH_THREATS(components_found[n])])

\* the threats apply_threat_catalog appends
CatalogThreats(components_found) ==
    Concat([n \in 1..Len(components_found) |-> BLE_MESH_THREATS(components_found[n])])
    \o (IF components_found = <<>>
        THEN Concat([n \in 1..Len(CatalogKeys) |-> BLE_MESH_THREATS(CatalogKeys[n])])
        ELSE <<>>)

\* the inner loop of check_custom_threats: one risk pattern over one content
RiskMatchLoop(risk, f) ==
    LET text == Joined(f.content)
        at == FindIter(risk.pattern, risk.greedy, text)
    IN  [k \in 1..Len(at) |->
            [category |-> "Custom", component |-> risk.component,
             description |-> risk.description, severity |-> risk.severity,
             file_path |-> Str(relative_to(PathOf(f), target))
                           \o <<":", ToString(LineOfOffset(text, at[k]))>>]]

CustomFileLoop(f) ==
    IF ~f.readable THEN <<>>
    ELSE Concat([r \in 1..Len(risk_patterns) |-> RiskMatchLoop(risk_patterns[r], f)])

\* custom_threats at the end of check_custom_threats
CustomThreats(dart_files) ==
    Concat([n \in 1..Len(dart_files) |-> CustomFileLoop(dart_files[n])])

\* results["summary"] of ThreatModeler.generate_report
Summary(threats, components_found) ==
    [total_threats |-> Len(threats),
     by_severity |-> CountBy(threats, "severity"),
     by_category |-> CountBy(threats, "category"),
     components_analyzed |-> components_found]

scan_components ==
    /\ tool = "threat"
    /\ pc = "scan_components"
    /\ results' = [results EXCEPT !.components_found = ComponentsFound(rglob(DartNames))]
    /\ pc' = "apply_threat_catalog"
    /\ UNCHANGED <<env, runs, findings, raw, report, ble_config>>

apply_threat_catalog ==
    /\ tool = "threat"
    /\ pc = "apply_threat_catalog"
    /\ results' = [results EXCEPT !.threats = @ \o CatalogThreats(results.components_found)]
    /\ pc' = "check_custom_threats"
    /\ UNCHANGED <<env, runs, findings, raw, report, ble_config>>

check_custom_threats ==
    /\ tool = "threat"
    /\ pc = "check_custom_threats"
    /\ results' = [results EXCEPT
                      !.threats = @ \o CustomThreats(rglob(DartNames)),
                      !.custom_findings = Len(CustomThreats(rglob(DartNames)))]
    /\ pc' = "generate_report"
    /\ UNCHANGED <<env, runs, findings, raw, report, ble_config>>

\* ThreatModeler.generate_report; run() then returns self.results
ThreatGenerateReport ==
    /\ tool = "threat"
    /\ pc = "generate_report"
    /\ results' = [results EXCEPT
                      !.summary = Summary(results.threats, results.components_found)]
    /\ pc' = "returned"
    /\ UNCHANGED <<env, runs, findings, raw, report, ble_config>>

ThreatNext ==
    \/ run
    \/ validate_target
    \/ scan_components
    \/ apply_threat_catalog
    \/ check_custom_threats
    \/ ThreatGenerateReport

----------------------------------------------------------------------------
(* The specifications *)

Next ==
    \/ run
    \/ validate_target
    \/ audit_dart_files
    \/ audit_android_manifest
    \/ audit_ios_plist
    \/ audit_pubspec
    \/ AuditorGenerateReport
    \/ extract_ble_config
    \/ audit_advertising
    \/ audit_gatt_permissions
    \/ audit_connection_security
    \/ audit_data_validation
    \/ audit_ble_permissions
    \/ BLEGenerateReport
    \/ scan_components
    \/ apply_threat_catalog
    \/ check_custom_threats
    \/ ThreatGenerateReport

\* any of the three analyzers
Spec == Init /\ [][Next]_vars

InitAuditor == Init /\ tool = "auditor"

\* a SecurityAuditor instance
SpecAuditor == InitAuditor /\ [][AuditorNext]_vars

InitBLE == Init /\ tool = "ble"

\* a BLEAttackSurfaceAnalyzer instance
SpecBLE == InitBLE /\ [][BLENext]_vars

InitThreat == Init /\ tool = "threat"

\* a ThreatModeler instance
SpecThreat == InitThreat /\ [][ThreatNext]_vars

----------------------------------------------------------------------------
(* Properties *)

\* run() has returned a report (and generate_report may have been called again)
Done == pc \in {"returned", "reported"}

\* the fixed order of finding severities, most severe first
FindingSeverities == <<"CRIT", "HIGH", "MED", "LOW">>

\* the fixed order of threat severities, most severe first
ThreatSeverities == <<"critical", "high", "medium", "low">>

\* a is at least as severe as b in the order
AtLeastAsSevere(order, a, b) ==
    \E i, j \in 1..Len(order) : order[i] = a /\ order[j] = b /\ i <= j

\* every record is at least as severe as the records after it
MostSevereFirst(order, fs) ==
    \A i, j \in 1..Len(fs) : i < j => AtLeastAsSevere(order, fs[i].severity, fs[j].severity)

\* the dedup key the claims name for the analyzer
DedupKey(f) ==
    IF tool = "auditor" THEN <<f.check, f.file_path, f.line>>
    ELSE <<f.category, f.description, f.file_path, f.line>>

\* the .dart file of the corpus a finding's file_path names, if any
DartFileOf(file_path) ==
    {g \in corpus : /\ g.dir = "target"
                    /\ g.rel[Len(g.rel)] \in DartNames
                    /\ Str(Path(FALSE, g.rel)) = file_path}

\* the path relative to the root has a directory segment named test
UnderTestSegment(rel) == \E i \in 1..(Len(rel) - 1) : rel[i] = "test"

\* the file name carries the generated-file suffix .g.dart
GeneratedName(rel) == rel[Len(rel)] \in {"a.g.dart"}

ExcludedFile(g) == UnderTestSegment(g.rel) \/ GeneratedName(g.rel)

\* the line, trimmed, begins with a comment marker
CommentLine(line) ==
    LET trimmed == strip(line)
    IN  \E marker \in {<<"/", "/">>, <<"/", "/", "/">>, <<"*">>} :
            /\ Len(trimmed) >= Len(marker)
            /\ SubSeq(trimmed, 1, Len(marker)) = marker

\* the checks of the Dart rule catalog
DartCheckNames ==
    {c.check : c \in Range(CRYPTO_CHECKS \o STORAGE_CHECKS \o LOGGING_CHECKS \o PROTOCOL_CHECKS)}

\* C1: in the report of SecurityAuditor and of BLEAttackSurfaceAnalyzer, a
\* finding that appears before another is at least as severe, in the order
\* CRIT > HIGH > MED > LOW
C1_ReportMostSevereFirst ==
    (tool \in {"auditor", "ble"} /\ Done) => MostSevereFirst(FindingSeverities, report.findings)

\* a report of three or more findings whose raw findings were not in order
C1_Witness ==
    /\ tool \in {"auditor", "ble"}
    /\ Done
    /\ Len(report.findings) >= 3
    /\ ~MostSevereFirst(FindingSeverities, raw)

\* C2: in the result of ThreatModeler.run, a threat that appears before
\* another is at least as severe, in the order critical > high > medium > low
C2_ThreatsMostSevereFirst ==
    (tool = "threat" /\ Done) => MostSevereFirst(ThreatSeverities, results.threats)

\* C3: after generate_report no two reported findings share the dedup key,
\* and total_findings is the number of distinct keys among the raw findings
C3_ReportKeysDistinct ==
    (tool \in {"auditor", "ble"} /\ Done) =>
        /\ \A i, j \in 1..Len(report.findings) :
              i # j => DedupKey(report.findings[i]) # DedupKey(report.findings[j])
        /\ report.total_findings = Cardinality({DedupKey(raw[i]) : i \in 1..Len(raw)})

\* a report made from raw findings that held duplicates, after a repeated scan
C3_Witness ==
    /\ tool \in {"auditor", "ble"}
    /\ pc = "returned"
    /\ runs = 2
    /\ report.total_findings >= 2
    /\ Len(raw) > report.total_findings

\* C4: the threats ThreatModeler reports hold no two entries with the same
\* description and the same file location, and total_threats counts them
C4_ThreatsDeduplicated ==
    (tool = "threat" /\ Done) =>
        /\ \A i, j \in 1..Len(results.threats) :
              (/\ i # j
               /\ results.threats[i].file_path # None
               /\ results.threats[i].description = results.threats[j].description)
              => results.threats[i].file_path # results.threats[j].file_path
        /\ results.summary.total_threats = Len(results.threats)

\* C5: generate_report called again on its own output, with no scan stage in
\* between, leaves findings, total_findings, by_severity and by_check /
\* by_category unchanged
C5_ReportIdempotent ==
    [][(pc \in {"returned", "reported"} /\ pc' = "reported") =>
          /\ findings' = findings
          /\ report'.findings = report.findings
          /\ report'.total_findings = report.total_findings
          /\ report'.by_severity = report.by_severity
          /\ IF tool = "auditor"
             THEN report'.by_check = report.by_check
             ELSE report'.by_category = report.by_category]_vars

\* generate_report was called again on a report of several severities
C5_Witness ==
    /\ tool \in {"auditor", "ble"}
    /\ pc = "reported"
    /\ Len(findings) >= 3
    /\ Cardinality(DOMAIN report.by_severity) >= 2
    /\ \E i, j \in 1..Len(findings) : i # j /\ findings[i].severity = findings[j].severity

\* the Dart-file findings among a list of findings
DartPart(fs) == SelectSeq(fs, LAMBDA f : f.check \in DartCheckNames)

\* C6: the findings of the SecurityAuditor report are the same whatever order
\* the Dart files are enumerated in
C6_ReportIndependentOfFileOrder ==
    (tool = "auditor" /\ Done /\ runs = 1) =>
        \A order \in Orders({f \in corpus : f.dir = "target"
                                             /\ f.rel[Len(f.rel)] \in DartNames}) :
            DartPart(report.findings) = Deduplicate(SortBySeverity(DartFindings(order)))

\* C7: a .dart file under a test directory segment, or with the suffix
\* .g.dart, contributes no finding of SecurityAuditor or BLEAttackSurfaceAnalyzer
C7_ExcludedFilesContributeNothing ==
    tool \in {"auditor", "ble"} =>
        \A i \in 1..Len(findings) :
            \A g \in DartFileOf(findings[i].file_path) : ~ExcludedFile(g)

\* C8: in ThreatModeler, a .dart file under a test directory segment or with
\* the suffix .g.dart makes no component present and yields no custom threat
C8_ThreatModelerUsesFilteredCorpus ==
    tool = "threat" =>
        /\ \A n \in 1..Len(results.components_found) :
              \E g \in corpus : /\ g.dir = "target"
                                /\ g.rel[Len(g.rel)] \in DartNames
                                /\ ~ExcludedFile(g)
                                /\ results.components_found[n] \in ComponentsIn(g)
        /\ \A n \in 1..Len(results.threats) :
              LET t == results.threats[n]
              IN  t.category = "Custom" =>
                    \A g \in DartFileOf(SubSeq(t.file_path, 1, Len(t.file_path) - 2)) :
                        ~ExcludedFile(g)

\* C9: SecurityAuditor.audit_dart_files produces no finding for a line that,
\* trimmed, begins with //, /// or *
C9_CommentLinesSuppressed ==
    tool = "auditor" =>
        \A i \in 1..Len(findings) :
            findings[i].check \in DartCheckNames =>
                \A g \in DartFileOf(findings[i].file_path) :
                    ~CommentLine(g.content[findings[i].line])

\* audit_dart_files has scanned a file it keeps, can read, and in which a
\* comment line matches a check of the applied rule-set
C9_Witness ==
    /\ tool = "auditor"
    /\ pc = "audit_android_manifest"
    /\ findings # <<>>
    /\ \E g \in corpus :
          /\ g.dir = "target" /\ g.readable
          /\ g.rel[Len(g.rel)] \in DartNames
          /\ ~ExcludedFile(g)
          /\ \E n \in 1..Len(g.content), r \in 1..Len(get_checks) :
                /\ CommentLine(g.content[n])
                /\ \E k \in 1..Len(g.content[n]) : g.content[n][k] \in get_checks[r].pattern

\* C10: the single-line scans of BLEAttackSurfaceAnalyzer produce no finding
\* for a line that, trimmed, begins with //, /// or *
C10_BLECommentLinesSuppressed ==
    tool = "ble" =>
        \A i \in 1..Len(findings) :
            findings[i].category \in {"advertising", "gatt", "connection"} =>
                \A g \in DartFileOf(findings[i].file_path) :
                    ~CommentLine(g.content[findings[i].line])

\* the findings the step under way appends to self.findings
Appended == SubSeq(findings', Len(findings) + 1, Len(findings'))

\* the .dart files a Dart scan of BLEAttackSurfaceAnalyzer reads
BLEScanned == {g \in corpus : /\ g.dir = "target"
                              /\ g.rel[Len(g.rel)] \in DartNames
                              /\ BLEKeeps(g)
                              /\ g.readable}

\* the lines i+1 .. i+15 of a file
FifteenLinesAfter(lines, i) == SubSeq(lines, i + 1, Min(i + 15, Len(lines)))

\* the number of findings anchored at line i of file g among fs
AnchoredAt(fs, g, i) ==
    Cardinality({k \in 1..Len(fs) : /\ fs[k].file_path = Str(Path(FALSE, g.rel))
                                    /\ fs[k].line = i})

FileAt(file_path) ==
    {g \in corpus : g.dir = "target" /\ Str(Path(FALSE, g.rel)) = file_path}

AppendedThreats ==
    SubSeq(results'.threats, Len(results.threats) + 1, Len(results'.threats))

\* every Threat of every ThreatModel of the catalog
WholeCatalog ==
    Range(transport_threats) \cup Range(mesh_threats) \cup Range(crypto_threats)
        \cup Range(identity_threats) \cup Range(protocol_threats)

\* the number of times t occurs in ts
Occurrences(t, ts) == Cardinality({k \in 1..Len(ts) : ts[k] = t})

\* the component name the catalog gives the threats of a component key
ComponentName(key) ==
    CASE key = "transport" -> "BLE Transport"
      [] key = "mesh" -> "Mesh Relay"
      [] key = "crypto" -> "Cryptography"
      [] key = "identity" -> "Identity"
      [] key = "protocol" -> "Protocol"

KeysInSortedOrder == <<"crypto", "identity", "mesh", "protocol", "transport">>

\* the full threat lists of the detected components, concatenated in sorted
\* key order
ThreatsOfDetected(detected) ==
    LET keys == SelectSeq(KeysInSortedOrder, LAMBDA k : k \in detected)
    IN  Concat([n \in 1..Len(keys) |-> BLE_MESH_THREATS(keys[n])])

DartFilesOnDisk == {g \in corpus : g.dir = "target" /\ g.rel[Len(g.rel)] \in DartNames}

\* some pattern of the component matches the full content, all patterns tried
SomePatternMatches(c, content) ==
    LET text == Joined(content)
    IN  \E n \in 1..Len(component_patterns(c)) :
            \E k \in 1..Len(text) : text[k] \in component_patterns(c)[n]

\* scan_components of the run under way has stored components_found
AfterScan ==
    pc \in {"apply_threat_catalog", "check_custom_threats", "generate_report", "returned"}

\* C15: after scan_components, a component key is in components_found if and
\* only if at least one of its patterns matches the full content of at least
\* one readable .dart file under the target, whichever pattern matches first
\* and whether or not other files are unreadable
C15_ComponentDetection ==
    (tool = "threat" /\ AfterScan) =>
        \A c \in Range(CatalogKeys) :
            (\E n \in 1..Len(results.components_found) : results.components_found[n] = c)
            <=> (\E g \in DartFilesOnDisk : g.readable /\ SomePatternMatches(c, g.content))

\* scan_components met an unreadable file whose content holds a component
\* that no readable file holds, and found another component in a readable file
C15_Witness ==
    /\ tool = "threat"
    /\ pc = "apply_threat_catalog"
    /\ results.components_found # <<>>
    /\ \E g \in DartFilesOnDisk, c \in Range(CatalogKeys) :
          /\ ~g.readable
          /\ SomePatternMatches(c, g.content)
          /\ \A n \in 1..Len(results.components_found) : results.components_found[n] # c

\* the category of the check a finding names: the tag of its rule for the Dart
\* and manifest rules, the category whose filter lets the scan run for the
\* plist and pubspec checks
CategoryOfCheck(check) ==
    CASE check \in {"insecure-rng", "hardcoded-secret", "zero-nonce", "nonce-reuse-risk",
                    "crypto-fallback"} -> "crypto"
      [] check \in {"secret-in-prefs", "secret-in-file", "key-deletion"} -> "storage"
      [] check \in {"pii-log-peerid", "key-logged", "pii-log-location", "secret-logged",
                    "debug-print"} -> "logging"
      [] check \in {"unguarded-decode", "unchecked-sublist", "unchecked-bytedata"} -> "protocol"
      [] check \in {"background-location", "backup-enabled", "debuggable",
                    "cleartext-traffic", "ios-background-modes"} -> "permissions"
      [] check \in {"http-dependency", "missing-sodium", "missing-secure-storage"} -> "crypto"

\* C16: when SecurityAuditor runs with check_filter = c, every finding it
\* records, and so every finding of the report, belongs to a check of
\* category c: only the Dart rules tagged c are applied, and the manifest,
\* plist and pubspec scans are skipped when c is not their category
C16_CategoryFilter ==
    (tool = "auditor" /\ check_filter # "none") =>
        /\ \A i \in 1..Len(findings) : CategoryOfCheck(findings[i].check) = check_filter
        /\ Done => \A i \in 1..Len(report.findings) :
                      CategoryOfCheck(report.findings[i].check) = check_filter

\* a filtered run has reported findings of its category over a corpus that
\* holds matches of another category: a manifest, a pubspec, or a Dart line
\* that matches a rule the filter leaves out
C16_Witness ==
    /\ tool = "auditor"
    /\ check_filter \in {"crypto", "logging", "protocol", "permissions"}
    /\ pc = "returned"
    /\ report.findings # <<>>
    /\ \E g \in corpus :
          /\ g.dir = "target" /\ g.readable
          /\ \/ /\ g.rel[Len(g.rel)] = "AndroidManifest.xml"
                /\ check_filter # "permissions"
             \/ /\ g.rel[Len(g.rel)] = "pubspec.yaml"
                /\ check_filter # "crypto"
             \/ /\ g.rel[Len(g.rel)] \in DartNames
                /\ AuditorKeeps(g)
                /\ \E n \in 1..Len(g.content), r \in 1..Len(AllChecks) :
                      /\ AllChecks[r].category # check_filter
                      /\ ~CommentLine(g.content[n])
                      /\ Search(AllChecks[r].pattern, g.content[n])

\* nothing was recorded and no report was made
NothingRecorded ==
    /\ findings = <<>>
    /\ raw = <<>>
    /\ report = NoReport
    /\ ble_config = EmptyConfig
    /\ results = EmptyResults

\* the process has left through sys.exit(1)
ExitedNonZero == pc = "exit1"

\* C17: in the three analyzers run() checks the target path before any other
\* stage; if the path does not exist, no stage runs, nothing is recorded, no
\* report is returned and the process exits with status 1; the process exits
\* non-zero only when validation fails, and a run over an existing path
\* completes with its report, whatever the number of findings
C17_ExitStatusAndValidation ==
    /\ (runs <= 1 /\ pc \in {"idle", "validate_target"}) => NothingRecorded
    /\ ~target_exists => (pc \in {"idle", "validate_target", "exit1"} /\ NothingRecorded)
    /\ ExitedNonZero => ~target_exists
    /\ target_exists => ~ExitedNonZero
    /\ Done => /\ target_exists
                /\ IF tool = "threat" THEN results.summary # <<>> ELSE report # NoReport

\* run() was called on a path that does not exist and the process has exited
C17_Witness ==
    /\ ExitedNonZero
    /\ runs = 1
    /\ ~target_exists

\* what rglob gives when the unreadable files are absent
ReadableOnly(names) == SelectSeq(rglob(names), LAMBDA f : f.readable)

\* no finding of fs names an unreadable file of the corpus
NoneFromUnreadable(fs) ==
    \A k \in 1..Len(fs) : \A g \in FileAt(fs[k].file_path) : g.readable

\* C18, for the Dart scans: a Dart file whose read fails contributes nothing,
\* and the scan appends what it appends when the unreadable files are absent
C18_DartScansRecover ==
    /\ (tool = "auditor" /\ pc = "audit_dart_files") =>
          /\ NoneFromUnreadable(Appended)
          /\ Appended = DartFindings(ReadableOnly(DartNames))
    /\ (tool = "ble" /\ pc = "audit_advertising") =>
          /\ NoneFromUnreadable(Appended)
          /\ Appended = BLEScanFindings(scan_dart_files(ReadableOnly(DartNames)),
                                           advertising_patterns, "advertising")
    /\ (tool = "ble" /\ pc = "audit_gatt_permissions") =>
          Appended = BLEScanFindings(scan_dart_files(ReadableOnly(DartNames)), gatt_patterns, "gatt")
    /\ (tool = "ble" /\ pc = "audit_connection_security") =>
          Appended = BLEScanFindings(scan_dart_files(ReadableOnly(DartNames)),
                                         connection_patterns, "connection")
    /\ (tool = "ble" /\ pc = "audit_data_validation") =>
          /\ NoneFromUnreadable(Appended)
          /\ Appended = ValidationFindings(scan_dart_files(ReadableOnly(DartNames)))

\* C18, for the manifest and plist scans
C18_ConfigScansRecover ==
    /\ (tool = "auditor" /\ pc = "audit_android_manifest"
          /\ check_filter \in {"none", "permissions"}) =>
          /\ NoneFromUnreadable(Appended)
          /\ Appended = ManifestFindings(ReadableOnly({"AndroidManifest.xml"}))
    /\ (tool = "auditor" /\ pc = "audit_ios_plist"
          /\ check_filter \in {"none", "permissions"}) =>
          Appended = PlistFindings(ReadableOnly({"Info.plist"}))
    /\ (tool = "ble" /\ pc = "audit_ble_permissions") =>
          /\ NoneFromUnreadable(Appended)
          /\ Appended = PermissionFindings(ReadableOnly({"AndroidManifest.xml"}),
                                           ReadableOnly({"Info.plist"}))

\* C18: if reading one corpus file fails, that file contributes no findings,
\* the scan continues over the remaining files, and the findings every scan
\* stage records are exactly those it records when the unreadable file is
\* absent from the corpus
C18_PerFileRecovery == [][C18_DartScansRecover /\ C18_ConfigScansRecover]_vars

\* the sum of the counts of a mapping
RECURSIVE SumOfCounts(_)
SumOfCounts(m) ==
    IF DOMAIN m = {} THEN 0
    ELSE LET k == CHOOSE x \in DOMAIN m : TRUE
         IN  m[k] + SumOfCounts([x \in DOMAIN m \ {k} |-> m[x]])

\* the mapping m counts the records of fs by the field: each key maps to the
\* number of records that carry it, no key maps to 0, and the counts sum to
\* the number of records
CountsRecords(m, fs, field) ==
    /\ \A i \in 1..Len(fs) : fs[i][field] \in DOMAIN m
    /\ \A k \in DOMAIN m :
          /\ m[k] = Cardinality({i \in 1..Len(fs) : fs[i][field] = k})
          /\ m[k] # 0
    /\ SumOfCounts(m) = Len(fs)

\* C19: in every report, total_findings (total_threats) is the length of the
\* reported findings (threats), by_severity and by_check / by_category count
\* the reported records by severity and by check / category, no key has
\* count 0, and the counts of each mapping sum to the total
C19_SummaryConsistent ==
    Done =>
        CASE tool = "auditor" ->
                /\ report.total_findings = Len(report.findings)
                /\ CountsRecords(report.by_severity, report.findings, "severity")
                /\ CountsRecords(report.by_check, report.findings, "check")
          [] tool = "ble" ->
                /\ report.total_findings = Len(report.findings)
                /\ CountsRecords(report.by_severity, report.findings, "severity")
                /\ CountsRecords(report.by_category, report.findings, "category")
          [] tool = "threat" ->
                /\ results.summary.total_threats = Len(results.threats)
                /\ CountsRecords(results.summary.by_severity, results.threats, "severity")
                /\ CountsRecords(results.summary.by_category, results.threats, "category")

\* a report whose records spread over several severities, one of them
\* counted more than once
C19_Witness ==
    /\ Done
    /\ tool \in {"auditor", "ble"}
    /\ report.total_findings >= 4
    /\ Cardinality(DOMAIN report.by_severity) >= 3
    /\ \E s \in DOMAIN report.by_severity : report.by_severity[s] >= 2

\* the entries the step under way appends to a list of ble_config
AppendedUuids(list) ==
    SubSeq(ble_config'[list], Len(ble_config[list]) + 1, Len(ble_config'[list]))

\* the number of UUID literals on a line
UuidsOnLine(line) == Cardinality({k \in 1..Len(line) : line[k] \in uuid_pattern})

\* the number of entries of es that name line n of file g
EntriesAt(es, g, n) ==
    Cardinality({k \in 1..Len(es) : /\ es[k].file = Str(Path(FALSE, g.rel))
                                    /\ es[k].line = n})

\* C20: extract_ble_config records every UUID literal of a scanned file in
\* exactly one of service_uuids / characteristic_uuids, with the 1-based
\* number of its line: in characteristic_uuids only if the word
\* characteristic is on that line and the word service is not, in
\* service_uuids if the word service is on the line or neither word is
C20_UuidClassification ==
    [][(tool = "ble" /\ pc = "extract_ble_config") =>
          /\ \A e \in Range(AppendedUuids("service_uuids"))
                        \cup Range(AppendedUuids("characteristic_uuids")) :
                \E g \in BLEScanned : \E n \in 1..Len(g.content) :
                    /\ e.file = Str(Path(FALSE, g.rel))
                    /\ e.line = n
                    /\ \E k \in 1..Len(g.content[n]) :
                          /\ g.content[n][k] \in uuid_pattern
                          /\ e.uuid = UuidOf(g.content[n][k])
          /\ \A g \in BLEScanned : \A n \in 1..Len(g.content) :
                LET as_characteristic ==
                        /\ In("characteristic", g.content[n])
                        /\ ~In("service", g.content[n])
                IN  /\ EntriesAt(AppendedUuids("characteristic_uuids"), g, n) =
                          (IF as_characteristic THEN UuidsOnLine(g.content[n]) ELSE 0)
                    /\ EntriesAt(AppendedUuids("service_uuids"), g, n) =
                          (IF as_characteristic THEN 0 ELSE UuidsOnLine(g.content[n]))]_vars

\* extract_ble_config has classified a UUID on a line with the word
\* characteristic only, one on a line with both words and one on a line
\* with neither
C20_Witness ==
    /\ tool = "ble"
    /\ pc = "audit_advertising"
    /\ runs = 1
    /\ ble_config.characteristic_uuids # <<>>
    /\ \E g, h \in BLEScanned : \E n \in 1..Len(g.content), m \in 1..Len(h.content) :
          /\ UuidsOnLine(g.content[n]) >= 1
          /\ In("characteristic", g.content[n]) /\ In("service", g.content[n])
          /\ EntriesAt(ble_config.service_uuids, g, n) = 1
          /\ UuidsOnLine(h.content[m]) >= 1
          /\ ~In("characteristic", h.content[m]) /\ ~In("service", h.content[m])
          /\ EntriesAt(ble_config.service_uuids, h, m) = 1

\* the .dart files and the pubspec.yaml files of the corpus
DartFilesInCorpus == {g \in corpus : g.dir = "target" /\ g.rel[Len(g.rel)] \in DartNames}

PubspecsInCorpus == {g \in corpus : g.rel = <<"pubspec.yaml">>}

\* SecurityAuditor runs with the crypto filter over a corpus of one Dart file
\* with Random() on line 5 and a hardcoded key on line 10, and possibly a
\* pubspec.yaml at the root or in its parent
ExampleCorpus ==
    /\ tool = "auditor"
    /\ check_filter = "crypto"
    /\ corpus = DartFilesInCorpus \cup PubspecsInCorpus
    /\ \E g \in corpus : /\ DartFilesInCorpus = {g}
                         /\ g.readable
                         /\ g.content = DartExample
                         /\ ~ExcludedFile(g)

\* the report begins with a CRIT insecure-rng at line 5 and a CRIT
\* hardcoded-secret at line 10 of the Dart file
TwoExampleFindings(fs) ==
    /\ Len(fs) >= 2
    /\ fs[1].severity = "CRIT" /\ fs[1].check = "insecure-rng" /\ fs[1].line = 5
    /\ fs[2].severity = "CRIT" /\ fs[2].check = "hardcoded-secret" /\ fs[2].line = 10
    /\ \A g \in DartFilesInCorpus :
          fs[1].file_path = Str(Path(FALSE, g.rel)) /\ fs[2].file_path = fs[1].file_path

\* the checks of audit_pubspec
PubspecCheckNames == {"http-dependency", "missing-sodium", "missing-secure-storage"}

\* C21 (as amended): over the example corpus the report of a crypto scan
\* begins with a CRIT insecure-rng at line 5 and a CRIT hardcoded-secret at
\* line 10, before any finding of lower severity; these are its only findings
\* when no pubspec.yaml exists at the root or its parent, and with a
\* pubspec.yaml every further finding is a HIGH or LOW finding of
\* audit_pubspec on pubspec.yaml
C21_EndToEndExample ==
    (ExampleCorpus /\ Done) =>
        /\ TwoExampleFindings(report.findings)
        /\ report.total_findings = Len(report.findings)
        /\ PubspecsInCorpus = {} => report.total_findings = 2
        /\ \A i \in 3..Len(report.findings) :
              /\ PubspecsInCorpus # {}
              /\ report.findings[i].check \in PubspecCheckNames
              /\ report.findings[i].severity \in {"HIGH", "LOW"}
              /\ report.findings[i].file_path = <<"pubspec.yaml">>
              /\ report.findings[i].line = 0

\* the example was scanned next to a pubspec.yaml and the report holds more
\* than the two findings
C21_Witness ==
    /\ ExampleCorpus
    /\ pc = "returned"
    /\ PubspecsInCorpus # {}
    /\ TwoExampleFindings(report.findings)
    /\ report.total_findings > 2

\* C21 as stated: the report has exactly the two findings, whether or not a
\* pubspec.yaml exists at the root or its parent
C21_ExactlyTwoFindings ==
    (ExampleCorpus /\ Done) =>
        /\ TwoExampleFindings(report.findings)
        /\ report.total_findings = 2
        /\ Len(report.findings) = 2

\* the threats a run of ThreatModeler that starts from an empty collection
\* returns over the corpus
ThreatsOfOneRun ==
    LET components_found == ComponentsFound(rglob(DartNames))
    IN  CatalogThreats(components_found) \o CustomThreats(rglob(DartNames))

\* C22: a second run() on the same ThreatModeler instance over the unchanged
\* corpus returns the same threats and the same total_threats as the first:
\* when generate_report closes a repeated run, total_threats stays what the
\* run before returned, and the threats are those of a run that started from
\* an empty collection
C22_NoStateAcrossRuns ==
    [][(tool = "threat" /\ pc = "generate_report" /\ runs >= 2) =>
          /\ results'.summary.total_threats = results.summary.total_threats
          /\ results'.threats = ThreatsOfOneRun]_vars

\* the findings whose dedup key no earlier finding has, in their order
KeepFirstOccurrences(fs) ==
    LET first(i) == \A j \in 1..(i - 1) : DedupKey(fs[j]) # DedupKey(fs[i])
        kept == SelectSeq([i \in 1..Len(fs) |-> i], first)
    IN  [k \in 1..Len(kept) |-> fs[kept[k]]]

\* the findings of one severity, in their order
OfSeverity(fs, severity) == SelectSeq(fs, LAMBDA f : f.severity = severity)

\* the stable sort by severity: severity after severity, most severe first,
\* the findings of one severity in the order they had
StablySortedBySeverity(fs) ==
    OfSeverity(fs, "CRIT") \o OfSeverity(fs, "HIGH") \o OfSeverity(fs, "MED")
        \o OfSeverity(fs, "LOW")

\* C23: the findings generate_report outputs (sort by severity, then remove
\* duplicates) are the raw findings with duplicates removed first, keeping the
\* first occurrence in discovery order, and then stably sorted by severity
C23_SortThenDedupIsDedupThenSort ==
    (tool \in {"auditor", "ble"} /\ Done) =>
        report.findings = StablySortedBySeverity(KeepFirstOccurrences(raw))

\* a report made from raw findings that held duplicates and were not in
\* order of severity
C23_Witness ==
    /\ tool \in {"auditor", "ble"}
    /\ Done
    /\ Len(KeepFirstOccurrences(raw)) < Len(raw)
    /\ ~MostSevereFirst(FindingSeverities, raw)
    /\ Cardinality({raw[i].severity : i \in 1..Len(raw)}) >= 3

\* the stage of run() a finding of SecurityAuditor comes from
StageRank(f) ==
    IF f.check \in DartCheckNames THEN 1
    ELSE IF f.check \in {c.check : c \in Range(PERMISSION_CHECKS_ANDROID)} THEN 2
    ELSE IF f.check = "ios-background-modes" THEN 3
    ELSE 4

\* the place of a Dart file in the enumeration of the file system
EnumerationIndex(file_path) ==
    LET dart_files == rglob(DartNames)
    IN  CHOOSE n \in 1..Len(dart_files) : Str(Path(FALSE, dart_files[n].rel)) = file_path

\* the position of a check in the rule catalog
PositionInCatalog(check) ==
    LET catalog == CRYPTO_CHECKS \o STORAGE_CHECKS \o LOGGING_CHECKS \o PROTOCOL_CHECKS
    IN  CHOOSE r \in 1..Len(catalog) : catalog[r].check = check

\* a was discovered before b
DiscoveredBefore(a, b) ==
    \/ StageRank(a) < StageRank(b)
    \/ /\ StageRank(a) = StageRank(b)
       /\ StageRank(a) # 1
    \/ /\ StageRank(a) = 1 /\ StageRank(b) = 1
       /\ LET fa == EnumerationIndex(a.file_path)
              fb == EnumerationIndex(b.file_path)
              ra == PositionInCatalog(a.check)
              rb == PositionInCatalog(b.check)
          IN  \/ fa < fb
              \/ fa = fb /\ ra < rb
              \/ fa = fb /\ ra = rb /\ a.line < b.line

\* C24: in the SecurityAuditor report two findings of equal severity appear
\* in their discovery order: Dart-file findings before manifest, plist and
\* pubspec findings, and among Dart-file findings by file enumeration order,
\* then by the position of the rule in the catalog, then by ascending line
C24_StableOrderWithinSeverity ==
    (tool = "auditor" /\ Done) =>
        \A i, j \in 1..Len(report.findings) :
            (i < j /\ report.findings[i].severity = report.findings[j].severity)
                => DiscoveredBefore(report.findings[i], report.findings[j])

\* the report holds two Dart-file findings of one severity from two files, of
\* which the later file has a match of an earlier rule, and two of one
\* severity from one file
C24_Witness ==
    /\ tool = "auditor"
    /\ Done
    /\ \E i, j \in 1..Len(report.findings) :
          LET a == report.findings[i]
              b == report.findings[j]
          IN  /\ i < j
              /\ a.severity = b.severity
              /\ StageRank(a) = 1 /\ StageRank(b) = 1
              /\ a.file_path # b.file_path
              /\ PositionInCatalog(b.check) < PositionInCatalog(a.check)
    /\ \E i, j \in 1..Len(report.findings) :
          LET a == report.findings[i]
              b == report.findings[j]
          IN  /\ i < j
              /\ a.severity = b.severity
              /\ StageRank(a) = 1 /\ StageRank(b) = 1
              /\ a.file_path = b.file_path
              /\ a.check # b.check

\* the findings that concern a file as a whole: the plist and pubspec checks
\* of SecurityAuditor, the permission checks of BLEAttackSurfaceAnalyzer
FileLevel(f) ==
    IF tool = "auditor"
    THEN f.check \in PubspecCheckNames \cup {"ios-background-modes"}
    ELSE f.category = "config"

\* the files of the corpus a finding's file_path names
ScannedFileOf(file_path) ==
    {g \in corpus : g.dir = "target" /\ Str(Path(FALSE, g.rel)) = file_path}

\* C25: in every state of SecurityAuditor and BLEAttackSurfaceAnalyzer, every
\* finding's code_snippet has at most 120 characters, its severity is one of
\* CRIT, HIGH, MED, LOW (the fallback sort rank 99 is never used), and its
\* line is 0 exactly for the file-level findings and otherwise lies between 1
\* and the number of lines of the scanned file
C25_FindingRanges ==
    tool \in {"auditor", "ble"} =>
        \A i \in 1..Len(findings) :
            LET f == findings[i]
            IN  /\ SnippetLen(f.code_snippet) <= 120
                /\ f.severity \in {"CRIT", "HIGH", "MED", "LOW"}
                /\ severity_order(f.severity) # 99
                /\ f.line = 0 <=> FileLevel(f)
                /\ ~FileLevel(f) =>
                      /\ ScannedFileOf(f.file_path) # {}
                      /\ \A g \in ScannedFileOf(f.file_path) :
                            f.line \in 1..Len(g.content)

\* the findings hold a file-level finding, a finding on the first line of its
\* file, and a snippet cut at 120 characters from a longer line
C25_Witness ==
    /\ tool \in {"auditor", "ble"}
    /\ \E i \in 1..Len(findings) : FileLevel(findings[i]) /\ findings[i].line = 0
    /\ \E i \in 1..Len(findings) :
          /\ ~FileLevel(findings[i])
          /\ SnippetLen(findings[i].code_snippet) = 120
          /\ findings[i].code_snippet.part > 0
    /\ \E i \in 1..Len(findings) :
          /\ ~FileLevel(findings[i])
          /\ ScannedFileOf(findings[i].file_path) # {}
          /\ findings[i].line = 1

\* the places (file, rule position, line) where a rule of a catalog can match
Places(files, catalog) ==
    UNION {{<<g, r, n>> : r \in 1..Len(catalog), n \in 1..Len(g.content)} : g \in files}

\* the rule matches of the Dart scan: a file the scan keeps and can read, a
\* rule the filter applies, a line that is no comment and matches the rule
DartRuleMatches ==
    LET catalog == CRYPTO_CHECKS \o STORAGE_CHECKS \o LOGGING_CHECKS \o PROTOCOL_CHECKS
    IN  {m \in Places(DartFilesInCorpus, catalog) :
            /\ m[1].readable
            /\ AuditorKeeps(m[1])
            /\ check_filter \in {"none", catalog[m[2]].category}
            /\ ~CommentLine(m[1].content[m[3]])
            /\ Search(catalog[m[2]].pattern, m[1].content[m[3]])}

\* the manifests the manifest scan goes over: the main ones, or all of them
\* when there is no main one
ManifestsScanned ==
    LET manifests == {g \in corpus : g.dir = "target"
                                     /\ g.rel[Len(g.rel)] = "AndroidManifest.xml"}
        main == {g \in manifests : \A k \in 1..Len(g.rel) : g.rel[k] # "debug"}
    IN  IF main # {} THEN main ELSE manifests

\* the rule matches of the manifest scan
ManifestRuleMatches ==
    {m \in Places(ManifestsScanned, PERMISSION_CHECKS_ANDROID) :
        /\ m[1].readable
        /\ check_filter \in {"none", "permissions"}
        /\ Search(PERMISSION_CHECKS_ANDROID[m[2]].pattern, m[1].content[m[3]])}

\* the number of findings of a list that concern a file as a whole
FileLevelCount(fs) == Cardinality({i \in 1..Len(fs) : FileLevel(fs[i])})

\* C26, for the report of the first run() on a fresh instance: the raw
\* findings have pairwise distinct (check, file_path, line) keys, the
\* deduplication removes nothing, and total_findings is the number of raw
\* rule matches; a report that lost findings to deduplication comes from a
\* repeated run()
C26_DistinctInOneRun ==
    /\ (tool = "auditor" /\ pc = "returned" /\ runs = 1) =>
          /\ \A i, j \in 1..Len(raw) :
                i # j => <<raw[i].check, raw[i].file_path, raw[i].line>>
                         # <<raw[j].check, raw[j].file_path, raw[j].line>>
          /\ report.total_findings = Len(raw)
          /\ Len(raw) = Cardinality(DartRuleMatches) + Cardinality(ManifestRuleMatches)
                        + FileLevelCount(raw)
    /\ (tool = "auditor" /\ Done /\ Len(raw) > report.total_findings) => runs >= 2

\* C26, for a repeated run(): the report generate_report makes at the end of
\* the run equals the report of the run before
C26_SecondReportEqualsFirst ==
    (tool = "auditor" /\ pc = "generate_report" /\ runs >= 2) => report' = report

\* C26: within a single run() of SecurityAuditor on a fresh instance the raw
\* findings have pairwise distinct (check, file_path, line) keys, so that
\* deduplication removes nothing and total_findings equals the number of raw
\* rule matches; deduplication removes findings only when run() is repeated
\* on the instance, and then the second report equals the first
C26_RawKeysDistinct == [](C26_DistinctInOneRun) /\ [][C26_SecondReportEqualsFirst]_vars

\* a repeated run() has returned a report of several findings, after
\* deduplication removed the findings of the second scan
C26_Witness ==
    /\ tool = "auditor"
    /\ pc = "returned"
    /\ runs = 2
    /\ report.total_findings >= 3
    /\ Len(raw) = 2 * report.total_findings
    /\ Cardinality(DartRuleMatches) >= 2

====
